---- MODULE Spec2Model ----
(***************************************************************************)
(* Model of pyrite's resource importer (src/lib/importer.py): the          *)
(* EngineMetaFinder / EngineLoader pair, its registration in               *)
(* sys.meta_path, and the import search of the Python runtime that drives  *)
(* them.  Module names are sequences of components; full names, resource   *)
(* keys and virtual paths are strings built by concatenation, as the code  *)
(* builds them with f-strings.                                             *)
(***************************************************************************)
EXTENDS Naturals, Sequences, FiniteSets, TLC

VARIABLES
    store,      \* the host's resource store: key -> [present, data]
    disk,       \* names the runtime's own path finder can find (fixed)
    meta_path,  \* sys.meta_path: the ordered finder list
    modules,    \* sys.modules: name -> module record
    pc,         \* position of the import in progress
    req,        \* the name the import statement asked for
    cur,        \* the name being resolved (req or one of its parents)
    idx,        \* index in meta_path of the next finder to consult
    found,      \* the ModuleSpec EngineMetaFinder returned
    log,        \* finder consultations and store reads of this import
    dirty,      \* the store was written since the import's last read
    outcome     \* how the import ended

vars == <<store, disk, meta_path, modules, pc, req, cur, idx, found, log,
          dirty, outcome>>

\* How many times the registration line of importer.py may be executed.
MaxInstalls == 2

-----------------------------------------------------------------------------
\* Names, keys, contents

Tools == <<"tools">>
ToolsUtil == <<"tools", "util">>
Names == {Tools, ToolsUtil}

RECURSIVE FullName(_)
FullName(n) ==
    IF Len(n) = 1 THEN n[1]
    ELSE FullName(SubSeq(n, 1, Len(n) - 1)) \o "." \o n[Len(n)]

Parent(n) == SubSeq(n, 1, Len(n) - 1)

Suffix == ".py"
Keys == {FullName(n) \o Suffix : n \in Names}

Contents == {"", "VALUE = 1", "VALUE = 2"}
NoResource == [present |-> FALSE, data |-> ""]
Resource(c) == [present |-> TRUE, data |-> c]
StoreValues == {NoResource} \cup {Resource(c) : c \in Contents}

\* Filesystem layouts the built-in path finder may see: tools is a package
\* directory, tools.util a module inside it.
DiskConfigs == {{}, {Tools}, {Tools, ToolsUtil}}

EMF == "EngineMetaFinder"
BuiltinFinders == <<"BuiltinImporter", "PathFinder">>

-----------------------------------------------------------------------------
\* pyrite.read_resource

KeyPresent(key) == key \in DOMAIN store /\ store[key].present
StoredData(key) == IF KeyPresent(key) THEN store[key].data ELSE ""

Bytes(d) == [kind |-> "bytes", data |-> d]
\* What a read of an absent key may yield: empty bytes, a null value, or a
\* failure of the read.
AbsentReads == {Bytes(""), [kind |-> "none", data |-> ""],
                [kind |-> "error", data |-> ""]}

read_resource(key) ==
    IF KeyPresent(key) THEN {Bytes(store[key].data)} ELSE AbsentReads

-----------------------------------------------------------------------------
\* EngineLoader

EngineLoader(fullname) == [fullname |-> fullname]
NoLoader == [fullname |-> ""]

get_filename_NoSuffix(self, fullname) == fullname
get_filename(self, fullname) == fullname \o ".py"

get_data_Fullname(self, filename) == read_resource(self.fullname)
get_data(self, filename) == read_resource(filename)

-----------------------------------------------------------------------------
\* EngineMetaFinder

ModuleSpec(name, loader) ==
    [kind |-> "spec", name |-> name, loader |-> loader, exc |-> ""]
None == [kind |-> "None", name |-> "", loader |-> NoLoader, exc |-> ""]
Raise(exc) == [kind |-> "raise", name |-> "", loader |-> NoLoader, exc |-> exc]

find_spec_key(fullname) == fullname \o ".py"

find_spec_AnyLength(fullname, r) ==
    IF r.kind = "error" THEN Raise("ResourceError")
    ELSE IF r.kind = "none" THEN Raise("TypeError")
    ELSE ModuleSpec(fullname, EngineLoader(fullname))
\* r is what pyrite.read_resource returned; len() of a null value is a
\* TypeError, and a failing read propagates.
find_spec(fullname, r) ==
    IF r.kind = "error" THEN Raise("ResourceError")
    ELSE IF r.kind = "none" THEN Raise("TypeError")
    ELSE IF Len(r.data) > 0 THEN ModuleSpec(fullname, EngineLoader(fullname))
    ELSE None

-----------------------------------------------------------------------------
\* sys.modules and the import search

NotLoaded == [origin |-> "none", src |-> "", filename |-> "", package |-> FALSE]
StoreModule(src, filename) ==
    [origin |-> "store", src |-> src, filename |-> filename, package |-> FALSE]
\* On disk a name with children is a package directory.
BuiltinModule(n) ==
    [origin |-> "builtin", src |-> "", filename |-> "<filesystem>",
     package |-> (n = Tools)]

Loaded(mods, n) == mods[n].origin # "none"

NoOutcome == [kind |-> "none", name |-> ""]

RECURSIVE FirstUnloaded(_, _, _)
FirstUnloaded(n, k, mods) ==
    IF k >= Len(n) \/ ~Loaded(mods, SubSeq(n, 1, k)) THEN SubSeq(n, 1, k)
    ELSE FirstUnloaded(n, k + 1, mods)

\* Entering the search for name c: its parent must be a package.
Enter(c, mods) ==
    IF Len(c) > 1 /\ ~mods[Parent(c)].package
    THEN [pc |-> "done", cur |-> c,
          outcome |-> [kind |-> "ModuleNotFoundError", name |-> FullName(c)]]
    ELSE [pc |-> "find", cur |-> c, outcome |-> NoOutcome]

\* After cur was loaded: the import is done, or goes on with the next name.
AfterLoad(mods) ==
    IF cur = req
    THEN [pc |-> "done", cur |-> cur,
          outcome |-> [kind |-> "loaded", name |-> FullName(req)]]
    ELSE Enter(FirstUnloaded(req, 1, mods), mods)

Count(mp, f) == Cardinality({i \in 1..Len(mp) : mp[i] = f})

\* One entry of the import's history: a finder consulted or a store read,
\* with what the store held under the key at that moment; clean says that
\* a read found the store unwritten since the read before it.
Event(by, name, key, ret, result, path) ==
    [by |-> by, name |-> name, key |-> key, present |-> KeyPresent(key),
     stored |-> StoredData(key), ret |-> ret, result |-> result,
     path |-> path, clean |-> (by \in {"find_spec", "get_data"} => ~dirty),
     installed |-> Count(meta_path, EMF)]

meta_path_insert(mp, i, x) == SubSeq(mp, 1, i) \o <<x>> \o SubSeq(mp, i + 1, Len(mp))

-----------------------------------------------------------------------------
Init ==
    /\ store \in [Keys -> StoreValues]
    /\ disk \in DiskConfigs
    /\ meta_path = BuiltinFinders
    /\ modules = [n \in Names |-> NotLoaded]
    /\ pc = "idle"
    /\ req = Tools
    /\ cur = Tools
    /\ idx = 1
    /\ found = None
    /\ log = <<>>
    /\ dirty = FALSE
    /\ outcome = NoOutcome

InstallIndex_Back == Len(meta_path)
InstallIndex == 0

\* sys.meta_path.insert(0, EngineMetaFinder()), executed with the module.
Install ==
    /\ pc \in {"idle", "done"}
    /\ Count(meta_path, EMF) < MaxInstalls
    /\ meta_path' = meta_path_insert(meta_path, InstallIndex, EMF)
    /\ UNCHANGED <<store, disk, modules, pc, req, cur, idx, found, log,
                   dirty, outcome>>

\* The host adds, replaces or removes a resource.
StoreWrite ==
    \E k \in Keys, v \in StoreValues :
        /\ v # store[k]
        /\ store' = [store EXCEPT ![k] = v]
        /\ dirty' = TRUE
        /\ UNCHANGED <<disk, meta_path, modules, pc, req, cur, idx, found,
                       log, outcome>>

\* import n
ImportStart ==
    \E n \in Names :
        /\ pc \in {"idle", "done"}
        /\ req' = n
        /\ idx' = 1
        /\ found' = None
        /\ log' = <<>>
        /\ dirty' = FALSE
        /\ IF Loaded(modules, n)
           THEN /\ pc' = "done"
                /\ cur' = n
                /\ outcome' = [kind |-> "cached", name |-> FullName(n)]
           ELSE LET e == Enter(FirstUnloaded(n, 1, modules), modules) IN
                /\ pc' = e.pc
                /\ cur' = e.cur
                /\ outcome' = e.outcome
        /\ UNCHANGED <<store, disk, meta_path, modules>>

FindSpecFrame_Reinsert ==
    /\ meta_path' = meta_path_insert(meta_path, 0, EMF)
    /\ UNCHANGED <<store, disk, modules, req, cur>>
FindSpecFrame == UNCHANGED <<store, disk, meta_path, modules, req, cur>>

\* The search consults EngineMetaFinder.find_spec(cur, path, target).
FindSpecStep ==
    /\ pc = "find"
    /\ idx <= Len(meta_path)
    /\ meta_path[idx] = EMF
    /\ LET fullname == FullName(cur)
           key == find_spec_key(fullname)
       IN  \E r \in read_resource(key) :
             LET res == find_spec(fullname, r)
                 path == IF res.kind = "spec"
                         THEN get_filename(res.loader, res.name) ELSE ""
             IN  /\ log' = Append(log, Event("find_spec", fullname, key, r,
                                              res.kind, path))
                 /\ dirty' = FALSE
                 /\ found' = res
                 /\ pc' = CASE res.kind = "spec" -> "load"
                            [] res.kind = "None" -> "find"
                            [] OTHER -> "done"
                 /\ idx' = IF res.kind = "None" THEN idx + 1 ELSE idx
                 /\ outcome' = IF res.kind = "raise"
                               THEN [kind |-> res.exc, name |-> fullname]
                               ELSE outcome
    /\ FindSpecFrame

\* The search consults one of the runtime's own finders; a module it finds
\* is loaded from the filesystem.
BuiltinFindStep ==
    /\ pc = "find"
    /\ idx <= Len(meta_path)
    /\ meta_path[idx] # EMF
    /\ LET hit == meta_path[idx] = "PathFinder" /\ cur \in disk
           mods == [modules EXCEPT ![cur] = BuiltinModule(cur)]
           a == AfterLoad(mods)
       IN  /\ log' = Append(log, Event(meta_path[idx], FullName(cur), "",
                                        Bytes(""),
                                        IF hit THEN "spec" ELSE "None", ""))
           /\ IF hit
              THEN /\ modules' = mods
                   /\ pc' = a.pc
                   /\ cur' = a.cur
                   /\ outcome' = a.outcome
                   /\ idx' = 1
              ELSE /\ idx' = idx + 1
                   /\ UNCHANGED <<modules, pc, cur, outcome>>
    /\ UNCHANGED <<store, disk, meta_path, req, found, dirty>>

\* No finder of the list matched.
SearchExhausted ==
    /\ pc = "find"
    /\ idx > Len(meta_path)
    /\ pc' = "done"
    /\ outcome' = [kind |-> "ModuleNotFoundError", name |-> FullName(cur)]
    /\ UNCHANGED <<store, disk, meta_path, modules, req, cur, idx, found,
                   log, dirty>>

\* SourceLoader.exec_module on the EngineLoader of the spec found:
\* get_filename, get_data, compile, execute.
LoadStep ==
    /\ pc = "load"
    /\ LET loader == found.loader
           fullname == found.name
           source_path == get_filename(loader, fullname)
       IN  \E r \in get_data(loader, source_path) :
             LET ok == r.kind = "bytes"
                 mods == [modules EXCEPT
                             ![cur] = StoreModule(r.data, source_path)]
                 a == AfterLoad(mods)
             IN  /\ log' = Append(log, Event("get_data", fullname,
                                              source_path, r,
                                              IF r.kind = "error"
                                              THEN "raise" ELSE "return", ""))
                 /\ dirty' = FALSE
                 /\ IF ok
                    THEN /\ modules' = mods
                         /\ pc' = a.pc
                         /\ cur' = a.cur
                         /\ outcome' = a.outcome
                         /\ idx' = 1
                    ELSE /\ pc' = "done"
                         /\ outcome' = [kind |-> IF r.kind = "none"
                                                 THEN "TypeError"
                                                 ELSE "ResourceError",
                                        name |-> fullname]
                         /\ UNCHANGED <<modules, cur, idx>>
    /\ UNCHANGED <<store, disk, meta_path, req, found>>

Next ==
    \/ Install
    \/ StoreWrite
    \/ ImportStart
    \/ FindSpecStep
    \/ BuiltinFindStep
    \/ SearchExhausted
    \/ LoadStep

Spec == Init /\ [][Next]_vars

-----------------------------------------------------------------------------
\* Shorthands over the history of the import in progress

FindSpecEvents == {i \in DOMAIN log : log[i].by = "find_spec"}
GetDataEvents == {i \in DOMAIN log : log[i].by = "get_data"}
BuiltinEvents == {i \in DOMAIN log : log[i].by \notin {"find_spec", "get_data"}}
\* The store was not written between the start of the import and now.
CleanImport == ~dirty /\ \A i \in DOMAIN log : log[i].clean
\* The import ran with the resolver registered.
RanInstalled == log # <<>> /\ log[1].installed >= 1

-----------------------------------------------------------------------------
\* C1: find_spec on a name whose key has no backing resource returns None
\* and never raises, whatever the read of the absent key yields.
C1_AbsentKeyReturnsNone ==
    \A i \in FindSpecEvents : ~log[i].present => log[i].result = "None"

\* C2: when the resource is gone, or the read returns nothing, by the time
\* get_data reads it, get_data fails; it never returns (empty) bytes to the
\* compiler.
C2_UnavailableResourceFails ==
    \A i \in GetDataEvents :
        (~log[i].present \/ log[i].ret.kind # "bytes" \/ Len(log[i].ret.data) = 0)
            => log[i].result = "raise"

\* C3: however often the registration is executed, the finder list holds
\* exactly one EngineMetaFinder entry once installed.
C3_SingleFinderEntry == Count(meta_path, EMF) <= 1

\* C4: the resolver sits in front of every built-in finder and no
\* registration moves it behind one; a search consults every resolver entry
\* before any built-in finder; a name the probe finds non-empty in the store
\* is resolved by the resolver, never by a built-in finder, and the module
\* loaded for it is the store copy, also when the filesystem has the name.
C4_FrontPriority ==
    /\ \A i, j \in DOMAIN meta_path :
          (i < j /\ meta_path[j] = EMF) => meta_path[i] = EMF
    /\ \A j \in BuiltinEvents :
          Cardinality({i \in FindSpecEvents :
                          i < j /\ log[i].name = log[j].name})
              = log[j].installed
    /\ \A i \in FindSpecEvents :
          (log[i].present /\ Len(log[i].stored) > 0)
              => /\ log[i].result = "spec"
                 /\ \A j \in BuiltinEvents :
                       log[j].name = log[i].name => j < i
                 /\ \A n \in Names :
                       (FullName(n) = log[i].name /\ Loaded(modules, n))
                           => modules[n].origin = "store"

C4_Witness ==
    /\ pc = "done"
    /\ outcome.kind = "loaded"
    /\ req \in disk
    /\ modules[req].origin = "store"
    /\ \E i \in FindSpecEvents :
          log[i].name = FullName(req) /\ log[i].result = "spec"

\* C5 (as claimed): with key "tools.util.py" holding "VALUE = 1" and nothing
\* for the parent name tools, importing tools.util yields a module executed
\* from "VALUE = 1" (VALUE equals 1) whose path is "tools.util.py" (stated
\* for the imports whose reads of absent keys all returned empty bytes).
C5_DottedImportFromStoreAlone ==
    ( /\ pc = "done"
      /\ req = ToolsUtil
      /\ outcome.kind # "cached"
      /\ RanInstalled
      /\ CleanImport
      /\ store["tools.util.py"] = Resource("VALUE = 1")
      /\ ~KeyPresent("tools.py")
      /\ Tools \notin disk
      /\ \A i \in FindSpecEvents : log[i].ret.kind = "bytes" )
    => /\ outcome.kind = "loaded"
       /\ modules[ToolsUtil] = StoreModule("VALUE = 1", "tools.util.py")

\* C5 (amended): tools.util is loaded only under a parent tools that a
\* built-in finder loaded as a package; with such a parent, key
\* "tools.util.py" holding "VALUE = 1" and no write to the store during the
\* import, the import yields the module executed from "VALUE = 1" with path
\* "tools.util.py"; without such a parent the import loads nothing.
C5_DottedImportNeedsParentPackage ==
    /\ Loaded(modules, ToolsUtil)
          => modules[Tools].origin = "builtin" /\ modules[Tools].package
    /\ (pc = "done" /\ req = ToolsUtil /\ modules[Tools].origin # "builtin")
          => outcome.kind \notin {"loaded", "cached"}
    /\ ( /\ pc = "done"
         /\ req = ToolsUtil
         /\ outcome.kind # "cached"
         /\ RanInstalled
         /\ CleanImport
         /\ store["tools.util.py"] = Resource("VALUE = 1")
         /\ modules[Tools].origin = "builtin" )
       => /\ outcome.kind = "loaded"
          /\ modules[ToolsUtil] = StoreModule("VALUE = 1", "tools.util.py")

C5_Witness ==
    /\ pc = "done"
    /\ req = ToolsUtil
    /\ outcome.kind = "loaded"
    /\ CleanImport
    /\ modules[Tools].origin = "builtin"
    /\ modules[ToolsUtil] = StoreModule("VALUE = 1", "tools.util.py")

\* C6 (as claimed): for every name with an existing resource, zero-length
\* content included, find_spec returns a spec whose loader reports the name
\* plus ".py" as its path.
C6_ExistingResourceResolves ==
    \A i \in FindSpecEvents :
        log[i].present
            => /\ log[i].result = "spec"
               /\ log[i].key = log[i].name \o Suffix
               /\ log[i].path = log[i].name \o Suffix

\* C6 (amended): for every name whose resource has non-empty content,
\* find_spec returns a spec for that name whose loader reports the name plus
\* ".py", the key that was probed; a resource of zero length is treated as
\* absent and find_spec returns None.
C6_NonEmptyResourceResolves ==
    \A i \in FindSpecEvents :
        /\ log[i].key = log[i].name \o Suffix
        /\ (log[i].present /\ Len(log[i].stored) > 0)
              => /\ log[i].result = "spec"
                 /\ log[i].path = log[i].name \o Suffix
                 /\ (i = Len(log) /\ pc = "load") => found.name = log[i].name
        /\ (log[i].present /\ Len(log[i].stored) = 0)
              => log[i].result = "None"

C6_Witness ==
    /\ pc = "load"
    /\ \E i \in FindSpecEvents :
          /\ i = Len(log)
          /\ log[i].present
          /\ log[i].result = "spec"
          /\ log[i].path = "tools.util.py"

\* C7: with no write to the store since the successful find_spec, get_data
\* is asked for exactly the key find_spec probed, the name plus ".py", and
\* returns the bytes the store holds under that key, unmodified.
C7_LoadReadsProbedKey ==
    \A j \in GetDataEvents :
        log[j].clean
            => /\ j > 1
               /\ log[j - 1].by = "find_spec"
               /\ log[j - 1].result = "spec"
               /\ log[j].key = log[j - 1].key
               /\ log[j].key = log[j].name \o Suffix
               /\ log[j - 1].present
               /\ log[j].ret = Bytes(log[j - 1].stored)

C7_Witness ==
    \E j \in GetDataEvents :
        /\ j = Len(log)
        /\ CleanImport
        /\ log[j].ret = Bytes("VALUE = 2")
        /\ modules[req].src = "VALUE = 2"

\* C8: an import whose keys are all absent from the store falls through the
\* resolver and ends loaded by a later finder or with the runtime's
\* ModuleNotFoundError, never with another error.
C8_AbsentFallsThrough ==
    ( /\ pc = "done"
      /\ FindSpecEvents # {}
      /\ \A i \in FindSpecEvents : ~log[i].present )
    => /\ outcome.kind \in {"loaded", "ModuleNotFoundError"}
       /\ \A i \in FindSpecEvents : log[i].result = "None"

\* C9: a call of find_spec, hit or miss, leaves the finder list, the loaded
\* modules and the content of the store as they were.
C9_FindSpecFrame ==
    [][ (/\ pc = "find"
         /\ idx <= Len(meta_path)
         /\ meta_path[idx] = EMF
         /\ log' # log)
        => (meta_path' = meta_path /\ modules' = modules /\ store' = store)
      ]_vars

C9_Witness ==
    \E i, j \in FindSpecEvents :
        /\ log[i].result = "None"
        /\ log[j].result = "spec"
        /\ j = Len(log)

\* C10: every successful import of a store module issues exactly two reads
\* of its key, the first in find_spec and the second in get_data, and the
\* module is built from what the second read returned.
C10_ExactlyTwoReads ==
    (pc = "done" /\ outcome.kind = "loaded" /\ modules[req].origin = "store")
    => LET key == FullName(req) \o Suffix
           reads == {i \in DOMAIN log : log[i].key = key}
       IN  /\ Cardinality(reads) = 2
           /\ \E i, j \in reads :
                 /\ i < j
                 /\ log[i].by = "find_spec"
                 /\ log[j].by = "get_data"
                 /\ modules[req].src = log[j].ret.data

====
